---- MODULE Spec2Model ----
(***************************************************************************)
(* State-machine model of the esiksha backend: the two entry points        *)
(* (backend/routes/videoRoutes.js from line 17 on, called "index" here,    *)
(* and backend/server.js, called "server"), the users and videos           *)
(* collections behind them, and the requests in flight.                    *)
(*                                                                         *)
(* Strings are sequences of one-character strings, so that toLowerCase,    *)
(* trim, length and the e-mail pattern are computed and not assumed.       *)
(* JavaScript null/undefined is the empty sequence for strings and         *)
(* documents, and the number 0 for dates.                                  *)
(***************************************************************************)
EXTENDS Integers, Sequences, FiniteSets, TLC

VARIABLES
    entry,        \* which entry point file is running: "index" or "server"
    nodeEnv,      \* process.env.NODE_ENV
    readyState,   \* mongoose.connection.readyState
    now,          \* the wall clock read by Date.now / new Date()
    nextId,       \* the next _id a new document gets
    users,        \* the users collection: a set of documents
    videos,       \* the videos collection: documents in natural (insertion) order
    req,          \* the requests: req[r] is request r's route, body, locals, response
    connect,      \* connectDB: the pending mongoose.connect or the pending timer
    reachable     \* whether the store answers a connection attempt

vars == <<entry, nodeEnv, readyState, now, nextId, users, videos, req, connect, reachable>>

----------------------------------------------------------------------------
(* Bounds of the model *)

MaxReq == 2
MaxTime == 2
MaxVideos == 3

Reqs == 1..MaxReq

----------------------------------------------------------------------------
(* Strings *)

null == <<>>

LowerOf(c) ==
    CASE c = "A" -> "a"
      [] c = "B" -> "b"
      [] c = "S" -> "s"
      [] OTHER -> c

\* String.prototype.toLowerCase
ToLowerCase(s) == [i \in 1..Len(s) |-> LowerOf(s[i])]

IsSpace(c) == c = " "

RECURSIVE TrimStart(_)
TrimStart(s) ==
    IF s # <<>> /\ IsSpace(Head(s)) THEN TrimStart(Tail(s)) ELSE s

RECURSIVE TrimEnd(_)
TrimEnd(s) ==
    IF s # <<>> /\ IsSpace(s[Len(s)]) THEN TrimEnd(SubSeq(s, 1, Len(s) - 1)) ELSE s

\* String.prototype.trim
Trim(s) == TrimEnd(TrimStart(s))

\* /^\S+@\S+\.\S+$/ : no whitespace, an "@" after at least one character, a "."
\* at least one character later, and at least one character after it.
MatchEmail(s) ==
    /\ \A i \in 1..Len(s) : ~IsSpace(s[i])
    /\ \E i \in 1..Len(s), j \in 1..Len(s) :
          /\ 1 < i
          /\ i + 1 < j
          /\ j < Len(s)
          /\ s[i] = "@"
          /\ s[j] = "."

----------------------------------------------------------------------------
(* Text used by the requests the model sends *)

Text(s) == <<s>>

NameAsha == <<"A", "s", "h", "a">>
EmailUpper == <<"A", "@", "B", ".", "c", "o", "m">>
EmailLower == <<"a", "@", "b", ".", "c", "o", "m">>
EmailPadded == <<"a", "@", "b", ".", "c", "o", "m", " ">>
EmailOther == <<"s", "@", "b", ".", "c", "o", "m">>
EmailBad == <<"a", "b">>
PassSecret == <<"s", "e", "c", "r", "e", "t">>
PassUpper == <<"S", "e", "c", "r", "e", "t">>
PassShort == <<"s", "e", "c">>

RegisterBody(n, e, p, c) ==
    [fullName |-> n, email |-> e, password |-> p, confirmPassword |-> c]

ValidRegisterBodies ==
    { RegisterBody(NameAsha, e, PassSecret, PassSecret) :
        e \in {EmailUpper, EmailLower, EmailPadded} }

InvalidRegisterBodies ==
    { RegisterBody(null, EmailLower, PassSecret, PassSecret),
      RegisterBody(NameAsha, EmailLower, PassSecret, PassUpper),
      RegisterBody(NameAsha, EmailLower, PassShort, PassShort),
      RegisterBody(NameAsha, EmailBad, PassSecret, PassSecret) }

RegisterBodies == ValidRegisterBodies \cup InvalidRegisterBodies

LoginBody(e, p) == [email |-> e, password |-> p]

LoginBodies ==
    { LoginBody(EmailUpper, PassSecret),
      LoginBody(EmailLower, PassSecret),
      LoginBody(EmailPadded, PassSecret),
      LoginBody(EmailOther, PassSecret),
      LoginBody(EmailOther, PassUpper),
      LoginBody(null, PassSecret) }

----------------------------------------------------------------------------
(* The user schema and the users collection *)

\* lastLogin has no default: a new document has none
NoDate == 0

\* schema options of email: lowercase, trim (index); none (server)
\* Faulty variant: the schema lowercases the e-mail and does not trim it
IndexEmailSetterNoTrim(v) == ToLowerCase(v)

IndexEmailSetter(v) == Trim(ToLowerCase(v))
ServerEmailSetter(v) == v
EmailSetter(v) == IF entry = "index" THEN IndexEmailSetter(v) ELSE ServerEmailSetter(v)

\* schema options of fullName: trim (index); none (server)
IndexFullNameSetter(v) == Trim(v)
ServerFullNameSetter(v) == v
FullNameSetter(v) == IF entry = "index" THEN IndexFullNameSetter(v) ELSE ServerFullNameSetter(v)

\* new User({...}): the setters run on the given values, _id is generated, and
\* createdAt takes its default, Date.now
NewUserDoc(id, fullName, email, password, time) ==
    [id |-> id,
     fullName |-> FullNameSetter(fullName),
     email |-> EmailSetter(email),
     password |-> password,
     createdAt |-> time,
     lastLogin |-> NoDate]

\* The validators of the index schema, one message per failing path, in the
\* order of the paths; error.errors' messages are then joined with ", ".
IndexFullNameErrors(d) ==
    IF d.fullName = null THEN Text("Full name is required")
    ELSE IF Len(d.fullName) < 2 THEN Text("Name must be at least 2 characters")
    ELSE <<>>

IndexEmailErrors(d) ==
    IF d.email = null THEN Text("Email is required")
    ELSE IF ~MatchEmail(d.email) THEN Text("Please enter a valid email")
    ELSE <<>>

IndexPasswordErrors(d) ==
    IF d.password = null THEN Text("Password is required")
    ELSE IF Len(d.password) < 6 THEN Text("Password must be at least 6 characters")
    ELSE <<>>

IndexValidate(d) == IndexFullNameErrors(d) \o IndexEmailErrors(d) \o IndexPasswordErrors(d)

\* server.js: every path is only `required`; the handler has let none be empty
ServerValidate(d) ==
    IF d.fullName = null \/ d.email = null \/ d.password = null
    THEN Text("ValidationError") ELSE <<>>

\* User.findOne({ email: q }): the filter is cast through the schema, so the
\* setters of the path run on q; the unique index leaves at most one match.
FindOneUser(q) ==
    LET c == EmailSetter(q)
    IN IF \E u \in users : u.email = c
       THEN CHOOSE u \in users : u.email = c
       ELSE null

\* the unique index on email: an insert of a second document with the same
\* stored email fails with code 11000
DuplicateKey(d) == \E u \in users : u.email = d.email

----------------------------------------------------------------------------
(* Requests *)

IdleReq ==
    [route |-> "none", body |-> null, pc |-> "idle", doc |-> null, res |-> null,
     prior |-> {}]

\* request r has not arrived yet; requests arrive in the order of their numbers
Fresh(r) ==
    /\ req[r].pc = "idle"
    /\ IF r = 1 THEN TRUE ELSE req[r - 1].pc # "idle"

\* History, not program state: the requests that had been answered when request
\* r arrived. The claims about requests made "in sequence" are stated with it.
Prior(r) ==
    IF req[r].pc = "idle" THEN {q \in Reqs : req[q].pc = "done"} ELSE req[r].prior

Respond(r, route, body, doc, res) ==
    req' = [req EXCEPT ![r] =
              [route |-> route, body |-> body, pc |-> "done", doc |-> doc, res |-> res,
               prior |-> Prior(r)]]

Await(r, route, body, doc, pc) ==
    req' = [req EXCEPT ![r] =
              [route |-> route, body |-> body, pc |-> pc, doc |-> doc, res |-> null,
               prior |-> Prior(r)]]

Failure(status, message) == [status |-> status, success |-> FALSE, message |-> Text(message)]

\* Faulty variant: the labels of states 1 and 2 are exchanged
getDBStatusTextSwapped(status) ==
    CASE status = 0 -> "disconnected"
      [] status = 1 -> "connecting"
      [] status = 2 -> "connected"
      [] status = 3 -> "disconnecting"
      [] OTHER -> "unknown"

getDBStatusText(status) ==
    CASE status = 0 -> "disconnected"
      [] status = 1 -> "connected"
      [] status = 2 -> "connecting"
      [] status = 3 -> "disconnecting"
      [] OTHER -> "unknown"

\* Faulty variant: the middleware blocks only in state 0, disconnected
BlockedWhenDisconnected(method) == entry = "index" /\ readyState = 0 /\ method # "GET"

\* the database status middleware of the index entry point: with the connection
\* not connected, every method but GET is answered 503; server.js has none
Blocked(method) == entry = "index" /\ readyState # 1 /\ method # "GET"

Unavailable ==
    [status |-> 503,
     success |-> FALSE,
     message |-> Text("Database temporarily unavailable. Please try again."),
     databaseStatus |-> getDBStatusText(readyState)]

\* the 404 handler at the end of the chain
NotFound ==
    IF entry = "index"
    THEN Failure(404, "API endpoint not found")
    ELSE Failure(404, "Endpoint not found")

----------------------------------------------------------------------------
(* POST /api/register *)

\* Faulty variant: the handler does not compare password and confirmPassword
RegisterPrecheckNoConfirm(b) ==
    IF b.fullName = null \/ b.email = null \/ b.password = null \/ b.confirmPassword = null
    THEN Text("All fields are required")
    ELSE IF Len(b.password) < 6
    THEN Text("Password must be at least 6 characters")
    ELSE <<>>

\* the checks of the handler before it touches the store
RegisterPrecheck(b) ==
    IF b.fullName = null \/ b.email = null \/ b.password = null \/ b.confirmPassword = null
    THEN Text("All fields are required")
    ELSE IF b.password # b.confirmPassword
    THEN Text("Passwords do not match")
    ELSE IF Len(b.password) < 6
    THEN Text("Password must be at least 6 characters")
    ELSE <<>>

\* the e-mail the handler looks up before it inserts
IndexRegisterQuery(b) == ToLowerCase(b.email)
ServerRegisterQuery(b) == b.email
RegisterQuery(b) == IF entry = "index" THEN IndexRegisterQuery(b) ELSE ServerRegisterQuery(b)

\* the document the handler builds
IndexRegisterDoc(id, b, time) ==
    NewUserDoc(id, Trim(b.fullName), Trim(ToLowerCase(b.email)), b.password, time)
ServerRegisterDoc(id, b, time) ==
    NewUserDoc(id, b.fullName, b.email, b.password, time)
RegisterDoc(id, b, time) ==
    IF entry = "index" THEN IndexRegisterDoc(id, b, time) ELSE ServerRegisterDoc(id, b, time)

\* the 201 answer
IndexRegistered(d) ==
    [status |-> 201, success |-> TRUE, message |-> Text("Registration successful!"),
     user |-> [id |-> d.id, fullName |-> d.fullName, email |-> d.email,
               createdAt |-> d.createdAt]]
ServerRegistered(d) ==
    [status |-> 201, success |-> TRUE, message |-> Text("Registration successful!"),
     user |-> [id |-> d.id, fullName |-> d.fullName, email |-> d.email]]
Registered(d) == IF entry = "index" THEN IndexRegistered(d) ELSE ServerRegistered(d)

\* the answer to a document that fails the schema's validation in save():
\* the index handler joins the messages into a 400, server.js falls to its 500
InvalidDoc(errors) ==
    IF entry = "index"
    THEN [status |-> 400, success |-> FALSE, message |-> errors]
    ELSE Failure(500, "Server error during registration")

\* An account that an earlier run of the same entry point left in the store:
\* what Register stores for the e-mail s@b.com, which no request of the model
\* registers again.
ExistingUser ==
    RegisterDoc(0, RegisterBody(NameAsha, EmailOther, PassSecret, PassSecret), 1)

\* The request arrives: the gate, then the handler up to its first await.
Register(r, b) ==
    /\ Fresh(r)
    /\ IF Blocked("POST")
       THEN Respond(r, "register", b, null, Unavailable)
       ELSE IF RegisterPrecheck(b) # <<>>
       THEN Respond(r, "register", b, null,
                    [status |-> 400, success |-> FALSE, message |-> RegisterPrecheck(b)])
       ELSE Await(r, "register", b, null, "findOne")
    /\ UNCHANGED <<connect, reachable, entry, nodeEnv, readyState, now, nextId, users, videos>>

\* The store runs User.findOne; a match ends the request.
RegisterFindOne(r) ==
    /\ req[r].route = "register"
    /\ req[r].pc = "findOne"
    /\ readyState = 1
    /\ IF FindOneUser(RegisterQuery(req[r].body)) # null
       THEN Respond(r, "register", req[r].body, null,
                    Failure(400, "User already exists with this email"))
       ELSE Await(r, "register", req[r].body, null, "construct")
    /\ UNCHANGED <<connect, reachable, entry, nodeEnv, readyState, now, nextId, users, videos>>

\* The handler resumes: new User(...) and the validation that save() runs first.
RegisterConstruct(r) ==
    /\ req[r].route = "register"
    /\ req[r].pc = "construct"
    /\ nextId' = nextId + 1
    /\ LET d == RegisterDoc(nextId, req[r].body, now)
           errors == IF entry = "index" THEN IndexValidate(d) ELSE ServerValidate(d)
       IN IF errors # <<>>
          THEN Respond(r, "register", req[r].body, d, InvalidDoc(errors))
          ELSE Await(r, "register", req[r].body, d, "save")
    /\ UNCHANGED <<connect, reachable, entry, nodeEnv, readyState, now, users, videos>>

\* The store runs the insert under the unique index, and the handler answers.
RegisterSave(r) ==
    /\ req[r].route = "register"
    /\ req[r].pc = "save"
    /\ readyState = 1
    /\ IF DuplicateKey(req[r].doc)
       THEN /\ users' = users
            /\ Respond(r, "register", req[r].body, req[r].doc,
                       Failure(400, "Email already registered"))
       ELSE /\ users' = users \cup {req[r].doc}
            /\ Respond(r, "register", req[r].body, req[r].doc, Registered(req[r].doc))
    /\ UNCHANGED <<connect, reachable, entry, nodeEnv, readyState, now, nextId, videos>>

----------------------------------------------------------------------------
(* POST /api/login *)

LoginPrecheck(b) ==
    IF b.email = null \/ b.password = null
    THEN Text("Email and password are required")
    ELSE <<>>

IndexLoginQuery(b) == ToLowerCase(b.email)
ServerLoginQuery(b) == b.email
LoginQuery(b) == IF entry = "index" THEN IndexLoginQuery(b) ELSE ServerLoginQuery(b)

\* Faulty variant: a login for an unknown e-mail is told so
NoSuchUserTold == Failure(401, "User not found")

\* the answer when no account matches
NoSuchUser == Failure(401, "Invalid email or password")

\* the answer when the stored password differs from the given one
WrongPassword == Failure(401, "Invalid email or password")

\* user.password !== password
PasswordMismatch(user, b) == user.password # b.password

IndexLoggedIn(d) ==
    [status |-> 200, success |-> TRUE, message |-> Text("Login successful!"),
     user |-> [id |-> d.id, fullName |-> d.fullName, email |-> d.email,
               lastLogin |-> d.lastLogin]]
ServerLoggedIn(d) ==
    [status |-> 200, success |-> TRUE, message |-> Text("Login successful!"),
     user |-> [id |-> d.id, fullName |-> d.fullName, email |-> d.email]]

Login(r, b) ==
    /\ Fresh(r)
    /\ IF Blocked("POST")
       THEN Respond(r, "login", b, null, Unavailable)
       ELSE IF LoginPrecheck(b) # <<>>
       THEN Respond(r, "login", b, null,
                    [status |-> 400, success |-> FALSE, message |-> LoginPrecheck(b)])
       ELSE Await(r, "login", b, null, "findOne")
    /\ UNCHANGED <<connect, reachable, entry, nodeEnv, readyState, now, nextId, users, videos>>

\* The store runs User.findOne and the handler compares the passwords. The index
\* handler goes on to update lastLogin; server.js answers at once.
LoginFindOne(r) ==
    /\ req[r].route = "login"
    /\ req[r].pc = "findOne"
    /\ readyState = 1
    /\ LET user == FindOneUser(LoginQuery(req[r].body))
       IN IF user = null
          THEN Respond(r, "login", req[r].body, null, NoSuchUser)
          ELSE IF PasswordMismatch(user, req[r].body)
          THEN Respond(r, "login", req[r].body, user, WrongPassword)
          ELSE IF entry = "index"
          THEN Await(r, "login", req[r].body, user, "touch")
          ELSE Respond(r, "login", req[r].body, user, ServerLoggedIn(user))
    /\ UNCHANGED <<connect, reachable, entry, nodeEnv, readyState, now, nextId, users, videos>>

\* The handler resumes: user.lastLogin = new Date(), then save() is called.
LoginTouch(r) ==
    /\ req[r].route = "login"
    /\ req[r].pc = "touch"
    /\ Await(r, "login", req[r].body, [req[r].doc EXCEPT !.lastLogin = now], "save")
    /\ UNCHANGED <<connect, reachable, entry, nodeEnv, readyState, now, nextId, users, videos>>

\* Faulty variant: the update carries no _id filter and reaches every account
SaveLastLoginOfAll(d) ==
    { [u EXCEPT !.lastLogin = d.lastLogin] : u \in users }

\* save() of a loaded document: an update of the modified path, lastLogin, of
\* the document with the same _id
SaveLastLogin(d) ==
    { IF u.id = d.id THEN [u EXCEPT !.lastLogin = d.lastLogin] ELSE u : u \in users }

\* The store runs the update and the handler answers. When the document is gone
\* the update matches nothing, which save() reports (DocumentNotFoundError, the
\* handler's 500) or not, depending on the mongoose release.
LoginSave(r) ==
    /\ req[r].route = "login"
    /\ req[r].pc = "save"
    /\ readyState = 1
    /\ users' = SaveLastLogin(req[r].doc)
    /\ \/ Respond(r, "login", req[r].body, req[r].doc, IndexLoggedIn(req[r].doc))
       \/ /\ \A u \in users : u.id # req[r].doc.id
          /\ Respond(r, "login", req[r].body, req[r].doc,
                     Failure(500, "Server error during login"))
    /\ UNCHANGED <<connect, reachable, entry, nodeEnv, readyState, now, nextId, videos>>

----------------------------------------------------------------------------
(* DELETE /api/users/clear *)

\* the route exists in the index entry point outside production only
HasClearRoute == entry = "index" /\ nodeEnv # "production"

ClearUsers(r) ==
    /\ Fresh(r)
    /\ IF Blocked("DELETE")
       THEN Respond(r, "clear", null, null, Unavailable)
       ELSE IF ~HasClearRoute
       THEN Respond(r, "clear", null, null, NotFound)
       ELSE Await(r, "clear", null, null, "deleteMany")
    /\ UNCHANGED <<connect, reachable, entry, nodeEnv, readyState, now, nextId, users, videos>>

\* The store runs User.deleteMany({}) and the handler answers.
ClearUsersDelete(r) ==
    /\ req[r].route = "clear"
    /\ req[r].pc = "deleteMany"
    /\ readyState = 1
    /\ users' = {}
    /\ Respond(r, "clear", null, null,
               [status |-> 200, success |-> TRUE, message |-> Text("All users deleted")])
    /\ UNCHANGED <<connect, reachable, entry, nodeEnv, readyState, now, nextId, videos>>

----------------------------------------------------------------------------
(* GET /api/health *)

IndexHealth(dbStatus) ==
    [status |-> 200,
     health |-> IF dbStatus = 1 THEN "Healthy" ELSE "Unhealthy",
     database |-> [status |-> getDBStatusText(dbStatus), connected |-> (dbStatus = 1)]]

ServerHealth(dbStatus) ==
    [status |-> 200,
     health |-> IF dbStatus = 1 THEN "Healthy" ELSE "Unhealthy",
     database |-> IF dbStatus = 1 THEN "Connected" ELSE "Disconnected",
     databaseStatus |-> dbStatus]

\* The handler reads the connection state and answers; it awaits nothing.
Health(r) ==
    /\ Fresh(r)
    /\ IF Blocked("GET")
       THEN Respond(r, "health", null, null, Unavailable)
       ELSE Respond(r, "health", null, [dbStatus |-> readyState],
                    IF entry = "index" THEN IndexHealth(readyState)
                    ELSE ServerHealth(readyState))
    /\ UNCHANGED <<connect, reachable, entry, nodeEnv, readyState, now, nextId, users, videos>>

----------------------------------------------------------------------------
(* GET /api/test-db *)

TestDb(r) ==
    /\ Fresh(r)
    /\ IF Blocked("GET")
       THEN Respond(r, "test-db", null, null, Unavailable)
       ELSE Await(r, "test-db", null, null, "countDocuments")
    /\ UNCHANGED <<connect, reachable, entry, nodeEnv, readyState, now, nextId, users, videos>>

\* The store runs User.countDocuments() and the handler answers.
TestDbCount(r) ==
    /\ req[r].route = "test-db"
    /\ req[r].pc = "countDocuments"
    /\ readyState = 1
    /\ Respond(r, "test-db", null, null,
               [status |-> 200, success |-> TRUE,
                message |-> Text("Database test successful"),
                userCount |-> Cardinality(users)])
    /\ UNCHANGED <<connect, reachable, entry, nodeEnv, readyState, now, nextId, users, videos>>

----------------------------------------------------------------------------
(* GET /video *)

VideoDoc(id) == [id |-> id, title |-> Text("title"), videoUrl |-> Text("url")]

\* sort({ _id: -1 }): the documents in descending order of _id
RECURSIVE InsertDescending(_, _)
InsertDescending(v, sorted) ==
    IF sorted = <<>> THEN <<v>>
    ELSE IF v.id >= Head(sorted).id THEN <<v>> \o sorted
    ELSE <<Head(sorted)>> \o InsertDescending(v, Tail(sorted))

RECURSIVE SortDescending(_)
SortDescending(docs) ==
    IF docs = <<>> THEN <<>>
    ELSE InsertDescending(Head(docs), SortDescending(Tail(docs)))

\* Faulty variant: findOne() without the sort, the first document in natural order
FindFirstVideo ==
    IF videos = <<>> THEN null ELSE Head(videos)

\* Video.findOne().sort({ _id: -1 }): the first document of the sorted
\* collection, null when there is none
FindLatestVideo ==
    IF videos = <<>> THEN null ELSE Head(SortDescending(videos))

GetVideo(r) ==
    /\ Fresh(r)
    /\ IF Blocked("GET")
       THEN Respond(r, "video", null, null, Unavailable)
       ELSE Await(r, "video", null, null, "findOne")
    /\ UNCHANGED <<connect, reachable, entry, nodeEnv, readyState, now, nextId, users, videos>>

\* The store runs the query and the handler answers res.json(video).
VideoFindOne(r) ==
    /\ req[r].route = "video"
    /\ req[r].pc = "findOne"
    /\ readyState = 1
    /\ Respond(r, "video", null, FindLatestVideo,
               [status |-> 200, body |-> FindLatestVideo])
    /\ UNCHANGED <<connect, reachable, entry, nodeEnv, readyState, now, nextId, users, videos>>

\* Videos are created outside this program, with any _id not in use.
InsertVideo(id) ==
    /\ Len(videos) < MaxVideos
    /\ \A i \in 1..Len(videos) : videos[i].id # id
    /\ videos' = Append(videos, VideoDoc(id))
    /\ UNCHANGED <<connect, reachable, entry, nodeEnv, readyState, now, nextId, users, req>>

----------------------------------------------------------------------------
(* The connection *)

\* mongoose.STATES: 0..3, and 99 (uninitialized)
ReadyStates == {0, 1, 2, 3, 99}

\* The driver moves the connection to another state.
ConnectionEvent(s) ==
    /\ s # readyState
    /\ readyState' = s
    /\ UNCHANGED <<connect, reachable, entry, nodeEnv, now, nextId, users, videos, req>>

AwaitsStore(r) ==
    req[r].pc \in {"findOne", "save", "deleteMany", "countDocuments"}

\* what the catch block of the route answers
StoreFailure(route) ==
    CASE route = "register" -> Failure(500, "Server error during registration")
      [] route = "login" -> Failure(500, "Server error during login")
      [] route = "clear" -> Failure(500, "Error clearing users")
      [] route = "test-db" -> Failure(500, "Database test failed")
      [] OTHER -> [status |-> 500, error |-> Text("buffering timed out")]

\* An operation issued while the connection is not connected is buffered by
\* mongoose; when it times out the await throws and the catch block answers.
StoreError(r) ==
    /\ AwaitsStore(r)
    /\ readyState # 1
    /\ Respond(r, req[r].route, req[r].body, req[r].doc, StoreFailure(req[r].route))
    /\ UNCHANGED <<connect, reachable, entry, nodeEnv, readyState, now, nextId, users, videos>>

----------------------------------------------------------------------------
(* connectDB *)

\* the delay of the retry timer, in seconds
RetryDelay == 5

\* connectDB awaits mongoose.connect; byTimer tells the call made by the timer
\* from the call made at startup
ConnectAttempt(byTimer) == [pc |-> "attempt", retryIn |-> 0, byTimer |-> byTimer]

\* setTimeout(connectDB, 5000) is pending
ConnectWait(byTimer) == [pc |-> "wait", retryIn |-> RetryDelay, byTimer |-> byTimer]

\* connectDB has returned and left no timer behind
ConnectReturned(byTimer) == [pc |-> "returned", retryIn |-> 0, byTimer |-> byTimer]

\* Faulty variant: the catch block never sets the timer
AfterFailureNoRetry(env, byTimer) == ConnectReturned(byTimer)

\* the catch block of connectDB
AfterFailure(env, byTimer) ==
    IF env = "production" THEN ConnectReturned(byTimer) ELSE ConnectWait(byTimer)

\* mongoose.connect resolves: the store answered
ConnectSucceeds ==
    /\ connect.pc = "attempt"
    /\ reachable
    /\ readyState' = 1
    /\ connect' = ConnectReturned(connect.byTimer)
    /\ UNCHANGED <<reachable, entry, nodeEnv, now, nextId, users, videos, req>>

\* mongoose.connect rejects: no server was selected
ConnectFails ==
    /\ connect.pc = "attempt"
    /\ ~reachable
    /\ readyState' = 0
    /\ connect' = AfterFailure(nodeEnv, connect.byTimer)
    /\ UNCHANGED <<reachable, entry, nodeEnv, now, nextId, users, videos, req>>

\* a second of the timer's delay passes
TimerTick ==
    /\ connect.pc = "wait"
    /\ connect.retryIn > 0
    /\ connect' = [connect EXCEPT !.retryIn = @ - 1]
    /\ UNCHANGED <<reachable, entry, nodeEnv, readyState, now, nextId, users, videos, req>>

\* the timer is due and calls connectDB, which calls mongoose.connect
TimerFires ==
    /\ connect.pc = "wait"
    /\ connect.retryIn = 0
    /\ readyState' = 2
    /\ connect' = ConnectAttempt(TRUE)
    /\ UNCHANGED <<reachable, entry, nodeEnv, now, nextId, users, videos, req>>

\* The store comes up or goes down.
StoreReachability ==
    /\ reachable' = ~reachable
    /\ UNCHANGED <<connect, entry, nodeEnv, readyState, now, nextId, users, videos, req>>

----------------------------------------------------------------------------
(* The clock *)

Tick ==
    /\ now < MaxTime
    /\ now' = now + 1
    /\ UNCHANGED <<connect, reachable, entry, nodeEnv, readyState, nextId, users, videos, req>>

----------------------------------------------------------------------------
(* The account service of either entry point, with the store connected *)

Init ==
    /\ entry \in {"index", "server"}
    /\ nodeEnv = "development"
    /\ readyState = 1
    /\ now = 1
    /\ nextId = 1
    /\ users = {ExistingUser}
    /\ videos = <<>>
    /\ req = [r \in Reqs |-> IdleReq]
    /\ connect = ConnectReturned(FALSE)
    /\ reachable = TRUE

Next ==
    \/ Tick
    \/ \E r \in Reqs, b \in RegisterBodies : Register(r, b)
    \/ \E r \in Reqs : RegisterFindOne(r)
    \/ \E r \in Reqs : RegisterConstruct(r)
    \/ \E r \in Reqs : RegisterSave(r)
    \/ \E r \in Reqs, b \in LoginBodies : Login(r, b)
    \/ \E r \in Reqs : LoginFindOne(r)
    \/ \E r \in Reqs : LoginTouch(r)
    \/ \E r \in Reqs : LoginSave(r)
    \/ \E r \in Reqs : ClearUsers(r)
    \/ \E r \in Reqs : ClearUsersDelete(r)

Spec == Init /\ [][Next]_vars

----------------------------------------------------------------------------
(* The index entry point with the connection changing state under it: one *)
(* request body per route *)

GateRegisterBody == RegisterBody(NameAsha, EmailLower, PassSecret, PassSecret)
GateLoginBody == LoginBody(EmailLower, PassSecret)

InitGate ==
    /\ entry = "index"
    /\ nodeEnv \in {"development", "production"}
    /\ readyState \in ReadyStates
    /\ now = 1
    /\ nextId = 1
    /\ users = {}
    /\ videos = <<>>
    /\ req = [r \in Reqs |-> IdleReq]
    /\ connect = ConnectReturned(FALSE)
    /\ reachable = TRUE

NextGate ==
    \/ \E s \in ReadyStates : ConnectionEvent(s)
    \/ \E r \in Reqs : Register(r, GateRegisterBody)
    \/ \E r \in Reqs : RegisterFindOne(r)
    \/ \E r \in Reqs : RegisterConstruct(r)
    \/ \E r \in Reqs : RegisterSave(r)
    \/ \E r \in Reqs : Login(r, GateLoginBody)
    \/ \E r \in Reqs : LoginFindOne(r)
    \/ \E r \in Reqs : LoginTouch(r)
    \/ \E r \in Reqs : LoginSave(r)
    \/ \E r \in Reqs : ClearUsers(r)
    \/ \E r \in Reqs : ClearUsersDelete(r)
    \/ \E r \in Reqs : Health(r)
    \/ \E r \in Reqs : TestDb(r)
    \/ \E r \in Reqs : TestDbCount(r)
    \/ \E r \in Reqs : GetVideo(r)
    \/ \E r \in Reqs : VideoFindOne(r)
    \/ \E r \in Reqs : StoreError(r)

SpecGate == InitGate /\ [][NextGate]_vars

----------------------------------------------------------------------------
(* The video lookup over a changing videos collection *)

InitVideo ==
    /\ entry \in {"index", "server"}
    /\ nodeEnv = "development"
    /\ readyState = 1
    /\ now = 1
    /\ nextId = 1
    /\ users = {}
    /\ videos = <<>>
    /\ req = [r \in Reqs |-> IdleReq]
    /\ connect = ConnectReturned(FALSE)
    /\ reachable = TRUE

NextVideo ==
    \/ \E id \in 1..MaxVideos : InsertVideo(id)
    \/ \E s \in {0, 1} : ConnectionEvent(s)
    \/ \E r \in Reqs : GetVideo(r)
    \/ \E r \in Reqs : VideoFindOne(r)
    \/ \E r \in Reqs : StoreError(r)

SpecVideo == InitVideo /\ [][NextVideo]_vars

----------------------------------------------------------------------------
(* The index entry point from startup: connectDB, a store that comes and goes,
   and health requests that read the connection state *)

InitConnect ==
    /\ entry = "index"
    /\ nodeEnv \in {"development", "production"}
    /\ readyState = 2
    /\ now = 1
    /\ nextId = 1
    /\ users = {}
    /\ videos = <<>>
    /\ req = [r \in Reqs |-> IdleReq]
    /\ connect = ConnectAttempt(FALSE)
    /\ reachable \in BOOLEAN

NextConnect ==
    \/ ConnectSucceeds
    \/ ConnectFails
    \/ TimerTick
    \/ TimerFires
    \/ StoreReachability
    \/ \E r \in Reqs : Health(r)

\* A pending mongoose.connect settles (a rejection within
\* serverSelectionTimeoutMS) and the event loop runs a pending timer.
FairConnect ==
    /\ WF_vars(ConnectSucceeds)
    /\ WF_vars(ConnectFails)
    /\ WF_vars(TimerTick)
    /\ WF_vars(TimerFires)

SpecConnect == InitConnect /\ [][NextConnect]_vars /\ FairConnect

----------------------------------------------------------------------------
(* Vocabulary of the claims *)

Done(r) == req[r].pc = "done"

IsRegister(r) == req[r].route = "register"
IsLogin(r) == req[r].route = "login"
IsClear(r) == req[r].route = "clear"

\* the normal form of an e-mail that the specification names: lowercase, trimmed
Normalize(e) == Trim(ToLowerCase(e))

\* equal ignoring letter case
SameIgnoringCase(e, f) == ToLowerCase(e) = ToLowerCase(f)

\* a registration input that no validation rejects
PassesValidation(b) ==
    /\ b.fullName # null /\ b.email # null /\ b.password # null
    /\ b.confirmPassword = b.password
    /\ Len(b.password) >= 6
    /\ Len(Trim(b.fullName)) >= 2
    /\ MatchEmail(Normalize(b.email))

ValidRegister(r) == IsRegister(r) /\ PassesValidation(req[r].body)

NoClear == \A c \in Reqs : ~IsClear(c)

\* the answered valid registrations whose e-mail normalizes to e
RegisteredFor(e) ==
    {r \in Reqs : ValidRegister(r) /\ Done(r) /\ Normalize(req[r].body.email) = e}

NormalEmails == {Normalize(b.email) : b \in ValidRegisterBodies}

AccountsFor(e) == {u \in users : Normalize(u.email) = e}

----------------------------------------------------------------------------
(* C1 *)

\* C1: among the valid Register requests, concurrent or not, whose e-mails
\* normalize to the same value, exactly one answers 201 and creates the account
\* and every other one answers 400, and no two accounts share the e-mail.
\* (Stated for runs without a bulk clear.)
ConcurrentRegisterOneWinner ==
    NoClear =>
        \A e \in NormalEmails :
            /\ \A r \in RegisteredFor(e) : req[r].res.status \in {201, 400}
            /\ RegisteredFor(e) # {} =>
                  Cardinality({r \in RegisteredFor(e) : req[r].res.status = 201}) = 1
            /\ Cardinality(AccountsFor(e)) <= 1

\* The same, of the index entry point alone.
IndexConcurrentRegisterOneWinner == entry = "index" => ConcurrentRegisterOneWinner

----------------------------------------------------------------------------
(* C2 *)

\* C2: of two valid Register requests made in sequence with e-mails equal
\* ignoring letter case, when the first succeeded the second answers a conflict
\* (400), and the store holds a single account for that e-mail.
SequentialRegisterConflict ==
    NoClear =>
        \A p \in Reqs, r \in Reqs :
            ( /\ ValidRegister(p) /\ ValidRegister(r)
              /\ p \in req[r].prior
              /\ Done(r)
              /\ SameIgnoringCase(req[p].body.email, req[r].body.email)
              /\ req[p].res.status = 201 )
            => /\ req[r].res.status = 400
               /\ Cardinality(AccountsFor(Normalize(req[r].body.email))) = 1

\* The same, of the index entry point alone.
IndexSequentialRegisterConflict == entry = "index" => SequentialRegisterConflict

----------------------------------------------------------------------------
(* C3 *)

\* login r follows the answered registration p, with no bulk clear that could
\* have run after p was answered
LoginAfterRegister(p, r) ==
    /\ ValidRegister(p) /\ Done(p) /\ req[p].res.status = 201
    /\ IsLogin(r) /\ Done(r)
    /\ p \in req[r].prior
    /\ req[r].body.email = req[p].body.email
    /\ req[r].body.password = req[p].body.password
    /\ \A c \in Reqs : IsClear(c) => c \in req[p].prior

\* C3: a successful Register followed, with no bulk clear in between, by a Login
\* with the same e-mail and password strings answers 200 with the id and e-mail
\* that Register returned.
RegisterThenLogin ==
    \A p \in Reqs, r \in Reqs :
        LoginAfterRegister(p, r) =>
            /\ req[r].res.status = 200
            /\ req[r].res.user.id = req[p].res.user.id
            /\ req[r].res.user.email = req[p].res.user.email

\* a registration of the padded, lowercase e-mail, then a login with it
RegisterThenLoginWitness ==
    \E p \in Reqs, r \in Reqs :
        /\ LoginAfterRegister(p, r)
        /\ req[p].body.email = EmailPadded
        /\ entry = "index"

----------------------------------------------------------------------------
(* C4 *)

\* the handler found no account for the login's e-mail
LoginNoAccount(r) ==
    /\ IsLogin(r) /\ Done(r)
    /\ req[r].body.email # null /\ req[r].body.password # null
    /\ req[r].doc = null

\* the handler found the account, with another password than the login's
LoginWrongPassword(r) ==
    /\ IsLogin(r) /\ Done(r)
    /\ req[r].body.email # null /\ req[r].body.password # null
    /\ req[r].doc # null
    /\ req[r].doc.password # req[r].body.password

\* C4: a Login that matches no account and a Login with an existing e-mail and
\* a wrong password get the identical answer, a 401 with the same message.
LoginEnumerationResistance ==
    \A p \in Reqs, r \in Reqs :
        LoginNoAccount(p) /\ LoginWrongPassword(r) =>
            /\ req[p].res = req[r].res
            /\ req[p].res.status = 401

LoginEnumerationWitness ==
    \E p \in Reqs, r \in Reqs : LoginNoAccount(p) /\ LoginWrongPassword(r)

----------------------------------------------------------------------------
(* C5 *)

\* the step is the arrival of a Register request r whose password and
\* confirmPassword differ
MismatchArrives(r) ==
    /\ req[r].pc = "idle"
    /\ req'[r].route = "register"
    /\ req'[r].body.password # req'[r].body.confirmPassword

\* C5: a Register request whose password differs from its confirmPassword is
\* answered 400 by the handler, and the stored accounts are the same after it.
MismatchRejected ==
    [][\A r \in Reqs :
          MismatchArrives(r) =>
              /\ req'[r].pc = "done"
              /\ req'[r].res.status = 400
              /\ users' = users]_vars

\* such a request has been answered while an account is stored
MismatchWitness ==
    \E r \in Reqs :
        /\ IsRegister(r) /\ Done(r)
        /\ req[r].body.password # req[r].body.confirmPassword
        /\ users # {}

----------------------------------------------------------------------------
(* C6 *)

\* C6: over any interleaving of Login requests, no account's stored lastLogin
\* ever decreases.
LastLoginMonotone ==
    [][\A u \in users, v \in users' :
          u.id = v.id => v.lastLogin >= u.lastLogin]_vars

----------------------------------------------------------------------------
(* C7 *)

\* C7: after a successful Login the account's stored lastLogin is set, and is
\* not before the account's createdAt.
LastLoginSetAfterLogin ==
    \A r \in Reqs :
        IsLogin(r) /\ Done(r) /\ req[r].res.status = 200 =>
            \A u \in users :
                u.id = req[r].doc.id =>
                    /\ u.lastLogin # NoDate
                    /\ u.lastLogin >= u.createdAt

\* The same, of the index entry point alone.
IndexLastLoginSetAfterLogin == entry = "index" => LastLoginSetAfterLogin

----------------------------------------------------------------------------
(* C8 *)

\* the HTTP method of each route
MethodOf(route) ==
    CASE route \in {"register", "login"} -> "POST"
      [] route = "clear" -> "DELETE"
      [] OTHER -> "GET"

\* the step is the arrival of request r
Arrives(r) == req[r].pc = "idle" /\ req'[r].pc # "idle"

\* what the handler of a GET route does on a request it is given
HandledGet(r) ==
    CASE req'[r].route = "health" -> req'[r].pc = "done" /\ req'[r].res.status = 200
      [] req'[r].route = "test-db" -> req'[r].pc = "countDocuments"
      [] req'[r].route = "video" -> req'[r].pc = "findOne"
      [] OTHER -> FALSE

\* C8: a request that reaches the gate while the connection state is not
\* connected is answered 503 at once, with no store operation issued and the
\* store unchanged, when its method is not GET, and is handed to its handler
\* when its method is GET.
GateBlocksWrites ==
    [][\A r \in Reqs :
          Arrives(r) /\ readyState # 1 =>
              IF MethodOf(req'[r].route) # "GET"
              THEN /\ req'[r].pc = "done"
                   /\ req'[r].res.status = 503
                   /\ users' = users /\ videos' = videos
              ELSE HandledGet(r)]_vars

\* a POST was answered 503 and a GET was answered by its handler, both while
\* the connection was not connected
GateWitness ==
    \E p \in Reqs, r \in Reqs :
        /\ IsRegister(p) /\ Done(p) /\ req[p].res.status = 503
        /\ req[r].route = "health" /\ Done(r)
        /\ req[r].res.status = 200 /\ ~req[r].res.database.connected

----------------------------------------------------------------------------
(* C9 *)

\* the table of the specification
StateLabel(s) ==
    IF s = 0 THEN "disconnected"
    ELSE IF s = 2 THEN "connecting"
    ELSE IF s = 3 THEN "disconnecting"
    ELSE IF s = 1 THEN "connected"
    ELSE "unknown"

\* C9: GetStatus always answers (200) and changes nothing, and for the raw
\* connection state s it reports the label "connected" and connected = true
\* exactly when s = 1, the labels disconnected, connecting, disconnecting for
\* 0, 2, 3 and unknown for any other value.
StatusReport ==
    [][\A r \in Reqs :
          Arrives(r) /\ req'[r].route = "health" =>
              /\ req'[r].pc = "done"
              /\ req'[r].res.status = 200
              /\ req'[r].res.database.status = StateLabel(readyState)
              /\ (req'[r].res.database.status = "connected") <=> (readyState = 1)
              /\ req'[r].res.database.connected <=> (readyState = 1)
              /\ UNCHANGED <<connect, reachable, entry, nodeEnv, readyState, now, nextId, users, videos>>
              /\ \A q \in Reqs \ {r} : req'[q] = req[q]]_vars

\* reports of the connected state and of a state outside 0..3
StatusWitness ==
    \E p \in Reqs, r \in Reqs :
        /\ req[p].route = "health" /\ Done(p)
        /\ req[p].res.database.status = "connected" /\ req[p].res.database.connected
        /\ req[r].route = "health" /\ Done(r)
        /\ req[r].res.database.status = "unknown" /\ ~req[r].res.database.connected

----------------------------------------------------------------------------
(* C10 *)

VideoSet == {videos[i] : i \in 1..Len(videos)}

\* the step is the store answering request r's query for the latest video
VideoAnswered(r) ==
    /\ req[r].route = "video"
    /\ req[r].pc = "findOne"
    /\ req'[r].pc = "done"
    /\ readyState = 1

\* C10: GetLatest answers null, not an error, when the videos collection is
\* empty, and otherwise the one video whose identifier is the greatest.
LatestVideo ==
    [][\A r \in Reqs :
          VideoAnswered(r) =>
              /\ req'[r].res.status = 200
              /\ IF VideoSet = {}
                 THEN req'[r].res.body = null
                 ELSE /\ req'[r].res.body \in VideoSet
                      /\ \A v \in VideoSet : v.id <= req'[r].res.body.id]_vars

\* one request answered null, another answered a video that was not the last
\* one inserted
LatestVideoWitness ==
    \E p \in Reqs, r \in Reqs :
        /\ req[p].route = "video" /\ Done(p) /\ req[p].res.status = 200
        /\ req[p].res.body = null
        /\ req[r].route = "video" /\ Done(r) /\ req[r].res.status = 200
        /\ req[r].res.body # null
        /\ Len(videos) >= 2
        /\ req[r].res.body # videos[Len(videos)]
        /\ req[r].res.body # videos[1]

----------------------------------------------------------------------------
(* C11 *)

\* the step in which request r, a login, is answered
LoginAnswered(r) ==
    /\ req[r].pc # "done"
    /\ req'[r].pc = "done"
    /\ req'[r].route = "login"

\* account v after the step is account u before it, lastLogin aside
SameButLastLogin(u, v) ==
    /\ v.id = u.id
    /\ v.fullName = u.fullName
    /\ v.email = u.email
    /\ v.password = u.password
    /\ v.createdAt = u.createdAt

\* C11: an account that exists before and after a step differs at most in its
\* lastLogin, and differs there only when the step answers 200 to a Login that
\* matched this account; a Login answered 400 or 401 leaves the accounts as
\* they were, and a Login answered 200 leaves every other account as it was.
LoginFrame ==
    [][/\ \A u \in users : \A v \in users' :
              v.id = u.id =>
                  /\ SameButLastLogin(u, v)
                  /\ v.lastLogin # u.lastLogin =>
                        \E r \in Reqs :
                            /\ LoginAnswered(r)
                            /\ req'[r].res.status = 200
                            /\ req'[r].doc.id = u.id
        /\ \A r \in Reqs :
              LoginAnswered(r) =>
                  /\ req'[r].res.status \in {400, 401} => users' = users
                  /\ req'[r].res.status = 200 =>
                        \A w \in users : w.id # req'[r].doc.id => w \in users']_vars

\* a Login answered 200 whose account carries the new lastLogin, beside another
\* account that has none
LoginFrameWitness ==
    \E r \in Reqs :
        /\ IsLogin(r) /\ Done(r) /\ req[r].res.status = 200
        /\ \E u \in users, w \in users :
              /\ u.id = req[r].doc.id
              /\ u.lastLogin = req[r].doc.lastLogin
              /\ u.lastLogin # NoDate
              /\ w.id # u.id
              /\ w.lastLogin = NoDate

----------------------------------------------------------------------------
(* C12 *)

\* the step in which a connection attempt of connectDB fails
ConnectFailed ==
    /\ connect.pc = "attempt"
    /\ connect'.pc # "attempt"
    /\ readyState' = 0

\* Outside production a failed attempt leaves a timer of RetryDelay seconds,
\* the next attempt begins when the timer has run down and not before, and in
\* production a failed attempt leaves no timer and no attempt follows.
RetryScheduled ==
    [][/\ ConnectFailed =>
              IF nodeEnv = "production"
              THEN connect'.pc = "returned"
              ELSE connect'.pc = "wait" /\ connect'.retryIn = RetryDelay
        /\ connect.pc = "wait" /\ connect' # connect =>
              IF connect.retryIn = 0
              THEN connect'.pc = "attempt" /\ readyState' = 2
              ELSE connect'.pc = "wait" /\ connect'.retryIn = connect.retryIn - 1
        /\ connect.pc = "returned" =>
              connect' = connect /\ readyState' = readyState]_vars

\* Outside production, a store that is reachable from some moment on is
\* connected to in the end.
EventuallyConnected ==
    <>[](reachable /\ nodeEnv # "production") => <>(readyState = 1)

\* C12: a failed attempt of connectDB outside production schedules another
\* attempt 5 seconds later, so that the connection state becomes connected once
\* the store is reachable for good; in production a failed attempt schedules
\* no further attempt.
ConnectRetry == RetryScheduled /\ EventuallyConnected

\* outside production, connected by an attempt that the timer made, after a
\* health request was answered with the state disconnected
ConnectRetryWitness ==
    /\ nodeEnv # "production"
    /\ readyState = 1
    /\ connect = ConnectReturned(TRUE)
    /\ \E r \in Reqs :
          /\ req[r].route = "health" /\ Done(r)
          /\ req[r].doc.dbStatus = 0

====
